---------------------------- MODULE Spec2Model ----------------------------
(***************************************************************************)
(* Model of the royalty-watcher bot (src/main.py): the poll loop of main() *)
(* with the sqlite tracking table, the in-memory beneficiary cache, the    *)
(* Twitter API helpers, the three engagement checks and the Telegram       *)
(* dispatch.                                                               *)
(*                                                                         *)
(* The process is single-threaded, so every call main() makes is one       *)
(* atomic step; the steps are split where the environment can interleave   *)
(* (an external stop and restart of the process).  The HTTP layer answers  *)
(* each call with a 200 body, a non-200 status, or a raised                *)
(* requests exception; the sqlite file is taken to be reliable (its only   *)
(* modelled error is the IntegrityError of a duplicate primary key).       *)
(***************************************************************************)
EXTENDS Integers, Sequences, FiniteSets, TLC

(***************************************************************************)
(* Bounds of the model.                                                    *)
(***************************************************************************)
NumPosts == 3        \* posts the monitored account ever publishes
MaxCycles == 2       \* poll cycles started, over all runs of the process
MaxRestarts == 1     \* external stop-and-restart events
MaxPollInterval == 60    \* the largest POLL_INTERVAL configured, in seconds

(***************************************************************************)
(* Program constants.                                                      *)
(***************************************************************************)
HandleMax == 15      \* {1,15} in PATTERN
TokenMin == 32       \* {32,44} in PATTERN
TokenMax == 44
FetchWindow == 5     \* get_user_tweets(launch_id, max_results=5)
DefaultPollInterval == 30   \* os.environ.get("POLL_INTERVAL", 30)
BackoffSeconds == 10        \* time.sleep(10) in the except clause

Pending == "Pending"
None == "None"
Unknown == "?"

(***************************************************************************)
(* Characters are their code points; a text is a sequence of them.         *)
(***************************************************************************)
Lower(c) == IF c >= 65 /\ c <= 90 THEN c + 32 ELSE c
Upper(c) == IF c >= 97 /\ c <= 122 THEN c - 32 ELSE c
IsDigit(c) == c >= 48 /\ c <= 57
IsUpper(c) == c >= 65 /\ c <= 90
IsLower(c) == c >= 97 /\ c <= 122
\* \s : space, \t \n \v \f \r
IsSpace(c) == c = 32 \/ (c >= 9 /\ c <= 13)
\* [A-Za-z0-9_]
IsWord(c) == IsDigit(c) \/ IsUpper(c) \/ IsLower(c) \/ c = 95
\* [1-9A-HJ-NP-Za-km-z] as written: no 0, no I (73), no O (79), no l (108)
InBase58(c) ==
    \/ IsDigit(c) /\ c # 48
    \/ IsUpper(c) /\ c # 73 /\ c # 79
    \/ IsLower(c) /\ c # 108
\* the same class under re.I: a character matches when either of its cases is in the class
IsToken(c) == InBase58(Lower(c)) \/ InBase58(Upper(c))

InClass(cls, c) ==
    CASE cls = "space" -> IsSpace(c)
      [] cls = "word" -> IsWord(c)
      [] cls = "token" -> IsToken(c)

Rep(c, n) == [k \in 1..n |-> c]

(***************************************************************************)
(* PATTERN (src/main.py:39), flags re.I | re.S:                            *)
(*   royalties\s+shared\s+with\s+@([A-Za-z0-9_]{1,15}).*?([1-9A-HJ-NP-Za-km-z]{32,44}) *)
(* matched the way a backtracking engine does: leftmost start, greedy      *)
(* handle, lazy gap, greedy token.                                         *)
(***************************************************************************)
\* "royalties"
LitRoyalties ==
    <<114, 111, 121, 97, 108, 116, 105, 101, 115>>
\* "shared"
LitShared ==
    <<115, 104, 97, 114, 101, 100>>
\* "with"
LitWith ==
    <<119, 105, 116, 104>>
\* "@"
LitAt ==
    <<64>>

\* Number of consecutive characters from position at on that are in the class, at most cap.
RECURSIVE Run(_, _, _, _)
Run(text, at, cls, cap) ==
    IF cap = 0 \/ at > Len(text) THEN 0
    ELSE IF ~InClass(cls, text[at]) THEN 0
    ELSE 1 + Run(text, at + 1, cls, cap - 1)

\* Position after the literal lit matched case-insensitively at position at; 0 when it
\* does not match.
AfterLit(text, at, lit) ==
    IF /\ at >= 1
       /\ at + Len(lit) - 1 <= Len(text)
       /\ \A k \in 1..Len(lit) : Lower(text[at + k - 1]) = lit[k]
    THEN at + Len(lit) ELSE 0

\* Position after \s+ at position at; 0 when there is no whitespace there.
AfterSpaces(text, at) ==
    IF at = 0 THEN 0
    ELSE LET n == Run(text, at, "space", Len(text))
         IN IF n = 0 THEN 0 ELSE at + n

\* Position of the first handle character for a match starting at position at; 0 when
\* the prefix royalties\s+shared\s+with\s+@ fails there.
PrefixEnd(text, at) ==
    AfterLit(text,
        AfterSpaces(text,
            AfterLit(text,
                AfterSpaces(text,
                    AfterLit(text,
                        AfterSpaces(text, AfterLit(text, at, LitRoyalties)),
                        LitShared)),
                LitWith)),
        LitAt)

\* Length of the token the greedy {32,44} takes at position tp (0 when fewer than 32 match).
TokenLen(text, tp) ==
    LET n == Run(text, tp, "token", TokenMax) IN IF n >= TokenMin THEN n ELSE 0

\* Where the lazy .*? stops: the first position from from onwards where a token starts;
\* 0 when there is none.
RECURSIVE TokenPos(_, _)
TokenPos(text, from) ==
    IF from > Len(text) THEN 0
    ELSE IF TokenLen(text, from) > 0 THEN from
    ELSE TokenPos(text, from + 1)

\* The greedy {1,15}: the longest handle of at most h characters at hs after which the
\* rest of the pattern still matches; 0 when there is none.
RECURSIVE HandleLen(_, _, _)
HandleLen(text, hs, h) ==
    IF h = 0 THEN 0
    ELSE IF TokenPos(text, hs + h) # 0 THEN h
    ELSE HandleLen(text, hs, h - 1)

\* Length of the handle of a match whose handle starts at hs (0 for hs: the prefix
\* failed); 0 when there is no match.
HandleAt(text, hs) ==
    IF hs = 0 THEN 0 ELSE HandleLen(text, hs, Run(text, hs, "word", HandleMax))

MatchesAt(text, at) == HandleAt(text, PrefixEnd(text, at)) # 0

\* The leftmost position from at onwards where the pattern matches; 0 when there is none.
RECURSIVE SearchFrom(_, _)
SearchFrom(text, at) ==
    IF at > Len(text) THEN 0
    ELSE IF MatchesAt(text, at) THEN at
    ELSE SearchFrom(text, at + 1)

\* The token that starts at position tp.
Token(text, tp) == SubSeq(text, tp, tp + TokenLen(text, tp) - 1)

\* group(1) and group(2) of the match whose handle starts at hs and has h characters.
Groups(text, hs, h) == <<SubSeq(text, hs, hs + h - 1), Token(text, TokenPos(text, hs + h))>>

\* The groups of the match whose handle starts at hs.
GroupsAt(text, hs) == Groups(text, hs, HandleAt(text, hs))

\* The groups of the match that starts at position at; <<>> when at is 0 (no match).
Match(text, at) == IF at = 0 THEN <<>> ELSE GroupsAt(text, PrefixEnd(text, at))

\* PATTERN.search(text): the groups of the leftmost match, or <<>> for no match.
PATTERN_search(text) == Match(text, SearchFrom(text, 1))

\* m.group(1), m.group(2), or (None, None), here the pair of empty sequences, without m.
GroupsOrNone(m) == IF m = <<>> THEN <<<<>>, <<>>>> ELSE m

extract_beneficiary_and_contract(text) == GroupsOrNone(PATTERN_search(text))

(***************************************************************************)
(* The world: the posts of the monitored account and the users behind the  *)
(* handles they name.                                                      *)
(***************************************************************************)
\* "royalties shared with @"
Phrase ==
    <<114, 111, 121, 97, 108, 116, 105, 101, 115, 32, 115, 104, 97, 114, 101,
      100, 32, 119, 105, 116, 104, 32, 64>>
\* "gm Royalties  SHARED\nwith\t@"
PhraseLoud ==
    <<103, 109, 32, 82, 111, 121, 97, 108, 116, 105, 101, 115, 32, 32, 83,
      72, 65, 82, 69, 68, 10, 119, 105, 116, 104, 9, 64>>
\* "shared with @"
PhraseCut ==
    <<115, 104, 97, 114, 101, 100, 32, 119, 105, 116, 104, 32, 64>>
\* "al"
HandleAl ==
    <<97, 108>>
\* "bo"
HandleBo ==
    <<98, 111>>

\* Text of post p: the first two posts announce the same beneficiary with different
\* tokens ("... @al CA: 777..." with 32 sevens, "... @al!\nxxx...0" with 44 x), the
\* later ones have a token that is too short (31 sevens) or lack the phrase.
TweetText(p) ==
    CASE p = 1 -> Phrase \o HandleAl \o <<32, 67, 65, 58, 32>> \o Rep(55, TokenMin)
      [] p = 2 -> PhraseLoud \o HandleAl \o <<33, 10>> \o Rep(120, TokenMax) \o <<48>>
      [] p % 2 = 1 -> Phrase \o HandleAl \o <<32>> \o Rep(55, TokenMin - 1)
      [] OTHER -> PhraseCut \o HandleAl \o <<32>> \o Rep(55, TokenMin)

Posts == 1..NumPosts

\* extract_beneficiary_and_contract on the text of every post: the function is pure, so
\* the loop's call on t.get("text") is read from this table.
ExtractTable == {<<p, extract_beneficiary_and_contract(TweetText(p))>> : p \in Posts}
Extracted(p) == (CHOOSE x \in ExtractTable : x[1] = p)[2]

\* The handles that exist as accounts, and the monitored account.
\* "LaunchOnBags", the default of the environment variable
LAUNCH_ACCOUNT ==
    <<76, 97, 117, 110, 99, 104, 79, 110, 66, 97, 103, 115>>
Users == {HandleAl, HandleBo}
\* the id Twitter gives for the handle h: "#" before the handle
UserId(h) == <<35>> \o h
FollowerVals == {"10", "20"}
\* "bio"
Bio(h) == <<98, 105, 111>>

\* The elements of the set S of posts, newest (largest) first.
Descending(S) ==
    [k \in 1..Cardinality(S) |-> CHOOSE p \in S : Cardinality({q \in S : q > p}) = k - 1]

\* Newest-first lists the post-fetch endpoint can return: at most n distinct posts.
Windows(n) == {Descending(S) : S \in {T \in SUBSET Posts : Cardinality(T) <= n}}

Reverse(s) == [k \in 1..Len(s) |-> s[Len(s) + 1 - k]]

\* The orders in which a SELECT without ORDER BY can return the set S of rows.
Orderings(S) ==
    {s \in [1..Cardinality(S) -> S] : \A a, b \in 1..Cardinality(S) : a # b => s[a] # s[b]}

(***************************************************************************)
(* HTTP answers.  st is "ok" (status 200, body in data), "err" (any other  *)
(* status) or "exc" (requests raised: connection error, timeout).          *)
(***************************************************************************)
Failures == {[st |-> "err", data |-> <<>>], [st |-> "exc", data |-> <<>>]}
Ok(d) == [st |-> "ok", data |-> d]

\* /users/by/username/h : one user object, or a 200 body without "data"
UserResp(h) ==
    Failures \cup {Ok(<<>>)}
        \cup {Ok(<<[id |-> UserId(h), followers |-> f, description |-> Bio(h)]>>) :
                f \in (IF h \in Users \cup {LAUNCH_ACCOUNT} THEN FollowerVals ELSE {})}
\* /users/:id/tweets of the monitored account
TweetsResp == Failures \cup {Ok(w) : w \in Windows(FetchWindow)}
\* /tweets/:id/retweeted_by : the ids of the users that retweeted
RetweetersResp == Failures \cup {Ok(<<>>)} \cup {Ok(<<UserId(h)>>) : h \in Users}
\* /tweets/search/recent : the matching tweets
SearchResp == Failures \cup {Ok(<<>>), Ok(<<"reply">>)}
\* /users/:id/tweets of the beneficiary : each tweet given by its referenced tweet ids
QuoteResp == Failures \cup {Ok(<<>>), Ok(<<{}>>)} \cup {Ok(<<{p}>>) : p \in Posts}
\* sendMessage
TelegramResp == {"200", "err", "exc"}

(***************************************************************************)
(* Twitter API helpers (src/main.py:78-111).  Each takes the answer tw_get *)
(* received; an "exc" answer never reaches them, it raises inside tw_get.  *)
(***************************************************************************)
\* tw_get: the JSON body on 200, None (here <<>>) otherwise
tw_get(resp) == IF resp.st = "ok" THEN resp.data ELSE <<>>

\* the user object as a one-element sequence, or <<>> for None
get_user_by_username(resp) == tw_get(resp)
get_user_tweets(resp) == tw_get(resp)
get_tweet_retweeters(resp) == tw_get(resp)
search_recent(resp) == tw_get(resp)

(***************************************************************************)
(* Checks (src/main.py:135-154).                                           *)
(***************************************************************************)
check_retweet(resp, beneficiary_id) ==
    LET users == get_tweet_retweeters(resp)
    IN \E k \in 1..Len(users) : users[k] = beneficiary_id

check_reply(resp) == Len(search_recent(resp)) > 0

check_quote_via_user_tweets(resp, tweet_id) ==
    LET ts == get_user_tweets(resp)
    IN \E k \in 1..Len(ts) : \E r \in ts[k] : r = tweet_id

(***************************************************************************)
(* Tracking store (src/main.py:27-75): the rows of tracked_tweets.         *)
(***************************************************************************)
Row(tweet_id, beneficiary_username, beneficiary_id, contract, created_at) ==
    [tweet_id |-> tweet_id, beneficiary_username |-> beneficiary_username,
     beneficiary_id |-> beneficiary_id, contract |-> contract,
     created_at |-> created_at, notified |-> 0]

\* Variant: INSERT OR REPLACE, the conflicting row is replaced by the new one.
db_insert_or_replace(d, tweet_id, beneficiary_username, beneficiary_id, contract, ts) ==
    {r \in d : r.tweet_id # tweet_id}
        \cup {Row(tweet_id, beneficiary_username, beneficiary_id, contract, ts)}

\* INSERT; the PRIMARY KEY conflict raises IntegrityError, which is swallowed
db_insert_tracked(d, tweet_id, beneficiary_username, beneficiary_id, contract, ts) ==
    IF \E r \in d : r.tweet_id = tweet_id
    THEN d
    ELSE d \cup {Row(tweet_id, beneficiary_username, beneficiary_id, contract, ts)}

\* Variant: UPDATE ... SET notified=1 without the WHERE clause.
db_mark_all_notified(d, tweet_id) == {[r EXCEPT !.notified = 1] : r \in d}

\* Variant: the notified row is deleted instead of flagged.
db_delete_notified(d, tweet_id) == {r \in d : r.tweet_id # tweet_id}

\* SELECT tweet_id, beneficiary_username, beneficiary_id, contract ... WHERE notified=0
db_get_unnotified(d) ==
    {<<r.tweet_id, r.beneficiary_username, r.beneficiary_id, r.contract>> :
        r \in {x \in d : x.notified = 0}}

\* UPDATE ... SET notified=1 WHERE tweet_id=?
db_mark_notified(d, tweet_id) ==
    {IF r.tweet_id = tweet_id THEN [r EXCEPT !.notified = 1] ELSE r : r \in d}

(***************************************************************************)
(* Telegram (src/main.py:114-125): True on status 200, False on any other  *)
(* status and on an exception, which send_telegram catches itself.         *)
(***************************************************************************)
send_telegram(answer) == answer = "200"

(***************************************************************************)
(* One iteration of the tracking loop (src/main.py:175-192) on the fetched *)
(* tweet t, where e is what extract_beneficiary_and_contract gives for its *)
(* text and resp the answer the identity lookup gets if it is              *)
(* made.  lookup is <<>> when no lookup was made, else <<handle, outcome>>  *)
(* with outcome "ok" (a user came back), "none" or "exc" (it raised).      *)
(***************************************************************************)
\* Variant: a failed lookup is cached like a successful one, with no id.
TrackBody_negative_cache(cache, d, t, e, resp, ts) ==
    LET beneficiary_username == e[1]
        contract == e[2]
        base == [cache |-> cache, db |-> d, tid |-> t.id, matched |-> FALSE,
                 lookup |-> <<>>, raised |-> FALSE, skipped |-> FALSE,
                 inserted |-> FALSE, conflict |-> FALSE]
        Insert(c, r) ==
            [r EXCEPT !.cache = c,
                      !.db = db_insert_tracked(d, t.id, beneficiary_username,
                                               c[beneficiary_username][1], contract, ts),
                      !.inserted = TRUE,
                      !.conflict = \E x \in d : x.tweet_id = t.id]
    IN IF beneficiary_username = <<>> \/ contract = <<>>
       THEN base
       ELSE LET m == [base EXCEPT !.matched = TRUE]
            IN IF beneficiary_username \notin DOMAIN cache
               THEN LET u == get_user_by_username(resp)
                        outcome == IF resp.st = "exc" THEN "exc"
                                   ELSE IF u # <<>> THEN "ok" ELSE "none"
                        called == [m EXCEPT !.lookup = <<beneficiary_username, outcome>>]
                    IN IF resp.st = "exc"
                       THEN [called EXCEPT !.raised = TRUE]
                       ELSE IF u # <<>>
                       THEN Insert(cache @@ (beneficiary_username :>
                                       <<u[1].id, u[1].followers, u[1].description>>),
                                   called)
                       ELSE [called EXCEPT !.skipped = TRUE,
                                           !.cache = cache @@ (beneficiary_username :>
                                                        <<<<>>, Unknown, <<>>>>)]
               ELSE Insert(cache, m)

\* Variant: the cache is not consulted, every matching tweet looks its handle up again.
TrackBody_always_lookup(cache, d, t, e, resp, ts) ==
    LET beneficiary_username == e[1]
        contract == e[2]
        base == [cache |-> cache, db |-> d, tid |-> t.id, matched |-> FALSE,
                 lookup |-> <<>>, raised |-> FALSE, skipped |-> FALSE,
                 inserted |-> FALSE, conflict |-> FALSE]
        Insert(c, r) ==
            [r EXCEPT !.cache = c,
                      !.db = db_insert_tracked(d, t.id, beneficiary_username,
                                               c[beneficiary_username][1], contract, ts),
                      !.inserted = TRUE,
                      !.conflict = \E x \in d : x.tweet_id = t.id]
    IN IF beneficiary_username = <<>> \/ contract = <<>>
       THEN base
       ELSE LET m == [base EXCEPT !.matched = TRUE]
                u == get_user_by_username(resp)
                outcome == IF resp.st = "exc" THEN "exc"
                           ELSE IF u # <<>> THEN "ok" ELSE "none"
                called == [m EXCEPT !.lookup = <<beneficiary_username, outcome>>]
            IN IF resp.st = "exc"
               THEN [called EXCEPT !.raised = TRUE]
               ELSE IF u # <<>>
               THEN Insert((beneficiary_username :>
                               <<u[1].id, u[1].followers, u[1].description>>) @@ cache,
                           called)
               ELSE [called EXCEPT !.skipped = TRUE]

\* Variant: the handle is looked up before the match is tested.
TrackBody_lookup_unmatched(cache, d, t, e, resp, ts) ==
    LET beneficiary_username == e[1]
        contract == e[2]
        base == [cache |-> cache, db |-> d, tid |-> t.id, matched |-> FALSE,
                 lookup |-> <<>>, raised |-> FALSE, skipped |-> FALSE,
                 inserted |-> FALSE, conflict |-> FALSE]
        Insert(c, r) ==
            [r EXCEPT !.cache = c,
                      !.db = db_insert_tracked(d, t.id, beneficiary_username,
                                               c[beneficiary_username][1], contract, ts),
                      !.inserted = TRUE,
                      !.conflict = \E x \in d : x.tweet_id = t.id]
    IN IF beneficiary_username = <<>> \/ contract = <<>>
       THEN [base EXCEPT !.lookup = <<beneficiary_username,
                                      IF resp.st = "exc" THEN "exc" ELSE "none">>,
                         !.raised = resp.st = "exc"]
       ELSE LET m == [base EXCEPT !.matched = TRUE]
            IN IF beneficiary_username \notin DOMAIN cache
               THEN LET u == get_user_by_username(resp)
                        outcome == IF resp.st = "exc" THEN "exc"
                                   ELSE IF u # <<>> THEN "ok" ELSE "none"
                        called == [m EXCEPT !.lookup = <<beneficiary_username, outcome>>]
                    IN IF resp.st = "exc"
                       THEN [called EXCEPT !.raised = TRUE]
                       ELSE IF u # <<>>
                       THEN Insert(cache @@ (beneficiary_username :>
                                       <<u[1].id, u[1].followers, u[1].description>>),
                                   called)
                       ELSE [called EXCEPT !.skipped = TRUE]
               ELSE Insert(cache, m)

TrackBody(cache, d, t, e, resp, ts) ==
    LET beneficiary_username == e[1]
        contract == e[2]
        base == [cache |-> cache, db |-> d, tid |-> t.id, matched |-> FALSE,
                 lookup |-> <<>>, raised |-> FALSE, skipped |-> FALSE,
                 inserted |-> FALSE, conflict |-> FALSE]
        Insert(c, r) ==
            [r EXCEPT !.cache = c,
                      !.db = db_insert_tracked(d, t.id, beneficiary_username,
                                               c[beneficiary_username][1], contract, ts),
                      !.inserted = TRUE,
                      !.conflict = \E x \in d : x.tweet_id = t.id]
    IN IF beneficiary_username = <<>> \/ contract = <<>>
       THEN base
       ELSE LET m == [base EXCEPT !.matched = TRUE]
            IN IF beneficiary_username \notin DOMAIN cache
               THEN LET u == get_user_by_username(resp)
                        outcome == IF resp.st = "exc" THEN "exc"
                                   ELSE IF u # <<>> THEN "ok" ELSE "none"
                        called == [m EXCEPT !.lookup = <<beneficiary_username, outcome>>]
                    IN IF resp.st = "exc"
                       THEN [called EXCEPT !.raised = TRUE]
                       ELSE IF u # <<>>
                       THEN Insert(cache @@ (beneficiary_username :>
                                       <<u[1].id, u[1].followers, u[1].description>>),
                                   called)
                       ELSE [called EXCEPT !.skipped = TRUE]
               ELSE Insert(cache, m)

(***************************************************************************)
(* The probe (src/main.py:196-202) on a row of db_get_unnotified, where    *)
(* rt, rp and qt are the answers the three endpoints give if called.       *)
(* calls lists the checks made with their results: "pos", "neg", "err" (a  *)
(* non-200 answer, read as negative) or "exc" (the call raised).           *)
(***************************************************************************)
CheckResult(resp, positive) ==
    IF resp.st = "exc" THEN "exc"
    ELSE IF positive THEN "pos"
    ELSE IF resp.st = "err" THEN "err" ELSE "neg"

\* Variant: the reply check is made before the retweet check.
probe_reply_first(row, rt, rp, qt) ==
    LET c1 == CheckResult(rt, check_retweet(rt, row[3]))
        c2 == CheckResult(rp, check_reply(rp))
        c3 == CheckResult(qt, check_quote_via_user_tweets(qt, row[1]))
        Out(a, cs) == [action |-> a, calls |-> cs, raised |-> cs[Len(cs)][2] = "exc"]
    IN IF c2 = "exc" THEN Out(None, <<<<"reply", c2>>>>)
       ELSE IF c2 = "pos" THEN Out("reply", <<<<"reply", c2>>>>)
       ELSE IF c1 = "exc" THEN Out(None, <<<<"reply", c2>>, <<"retweet", c1>>>>)
       ELSE IF c1 = "pos" THEN Out("retweet", <<<<"reply", c2>>, <<"retweet", c1>>>>)
       ELSE IF c3 = "exc"
            THEN Out(None, <<<<"reply", c2>>, <<"retweet", c1>>, <<"quote", c3>>>>)
       ELSE IF c3 = "pos"
            THEN Out("quote", <<<<"reply", c2>>, <<"retweet", c1>>, <<"quote", c3>>>>)
       ELSE Out(None, <<<<"reply", c2>>, <<"retweet", c1>>, <<"quote", c3>>>>)

probe(row, rt, rp, qt) ==
    LET c1 == CheckResult(rt, check_retweet(rt, row[3]))
        c2 == CheckResult(rp, check_reply(rp))
        c3 == CheckResult(qt, check_quote_via_user_tweets(qt, row[1]))
        Out(a, cs) == [action |-> a, calls |-> cs, raised |-> cs[Len(cs)][2] = "exc"]
    IN IF c1 = "exc" THEN Out(None, <<<<"retweet", c1>>>>)
       ELSE IF c1 = "pos" THEN Out("retweet", <<<<"retweet", c1>>>>)
       ELSE IF c2 = "exc" THEN Out(None, <<<<"retweet", c1>>, <<"reply", c2>>>>)
       ELSE IF c2 = "pos" THEN Out("reply", <<<<"retweet", c1>>, <<"reply", c2>>>>)
       ELSE IF c3 = "exc"
            THEN Out(None, <<<<"retweet", c1>>, <<"reply", c2>>, <<"quote", c3>>>>)
       ELSE IF c3 = "pos"
            THEN Out("quote", <<<<"retweet", c1>>, <<"reply", c2>>, <<"quote", c3>>>>)
       ELSE Out(None, <<<<"retweet", c1>>, <<"reply", c2>>, <<"quote", c3>>>>)

\* Variant: the message leaves the contract out.
Message_without_contract(row, cache, a) ==
    [user |-> row[2], followers |-> Unknown, bio |-> <<>>,
     contract |-> <<>>, action |-> a, tweet |-> row[1]]

\* The message of src/main.py:204-211: the fields the f-string embeds.
Message(row, cache, a) ==
    LET ident == IF row[2] \in DOMAIN cache THEN cache[row[2]]
                 ELSE <<Unknown, Unknown, <<>>>>
    IN [user |-> row[2], followers |-> ident[2], bio |-> ident[3],
        contract |-> row[4], action |-> a, tweet |-> row[1]]

\* Variant: no handler around the cycle, the exception ends the process.
ExceptHandler_missing == "exited"

\* Where control goes when the body of the try raises (src/main.py:218-220).
ExceptHandler == "backoff"

\* Variant: a failed send_telegram raises into the handler of the cycle.
SendFailure_raises == "backoff"

\* Where control goes when send_telegram returns False (src/main.py:212-213): the
\* result is not looked at, the next statement runs.
SendFailure == "mark"

\* Variant: the failure is logged and main() carries on into the loop.
StartupFailure_ignored == "fetch"

\* Where control goes when the launch account does not resolve (src/main.py:162-164).
StartupFailure == "exited"

(***************************************************************************)
(* State.                                                                  *)
(***************************************************************************)
VARIABLES
    pc,                 \* where main() is: start, fetch, track, probe, send, mark, backoff, exited
    db,                 \* the rows of tracked_tweets (the sqlite file; survives a restart)
    beneficiary_cache,  \* username -> <<id, followers, bio>>
    launch_id,          \* id of the launch account, <<>> until resolved
    tweets,             \* the fetched window, newest first (post ids)
    i,                  \* position in reversed(tweets)
    rows,               \* the result of db_get_unnotified
    j,                  \* position in rows
    action,             \* the action the probe found for rows[j]
    msg,                \* the last message composed
    now,                \* clock: the number of cycles started (datetime.utcnow)
    restarts,           \* stop-and-restart events so far
    \* history variables
    sendResult,         \* what the last send_telegram returned
    sent,               \* per post, the number of messages Telegram accepted
    failed,             \* the posts for which a send_telegram returned False
    calls,              \* the checks the last probe made, with their results
    track,              \* what the last iteration of the tracking loop did
    skipped,            \* the posts skipped because the beneficiary did not resolve
    \* the inputs and results of the functions checked on their own
    input,              \* the text given to extract_beneficiary_and_contract
    extracted,          \* what it returned for input; Pending before the call
    poll_interval,      \* POLL_INTERVAL as configured in the environment
    slept               \* the last time.sleep: after what, and for how many seconds

vars == <<pc, db, beneficiary_cache, launch_id, tweets, i, rows, j, action, msg, now,
          restarts, sendResult, sent, failed, calls, track, skipped,
          input, extracted, poll_interval, slept>>

\* the variables of main() and its history
main == <<pc, db, beneficiary_cache, launch_id, tweets, i, rows, j, action, msg, now,
          restarts, sendResult, sent, failed, calls, track, skipped>>

\* the variables the poll loop leaves alone
aside == <<input, extracted, poll_interval, slept>>

locals == <<tweets, i, rows, j, action, msg>>

NoMsg == [user |-> <<>>, followers |-> Unknown, bio |-> <<>>, contract |-> <<>>,
          action |-> None, tweet |-> 0]
NoTrack == [tid |-> 0, matched |-> FALSE, lookup |-> <<>>, raised |-> FALSE,
            skipped |-> FALSE, inserted |-> FALSE, conflict |-> FALSE]

NoSleep == [after |-> "start", seconds |-> 0]

\* The API's tweet object for post p; its text is TweetText(p).
Tweet(p) == [id |-> p]

InitMain ==
    /\ pc = "start"
    /\ db = {}
    /\ beneficiary_cache = <<>>
    /\ launch_id = <<>>
    /\ tweets = <<>> /\ i = 1
    /\ rows = <<>> /\ j = 1
    /\ action = None
    /\ msg = NoMsg
    /\ now = 0
    /\ restarts = 0
    /\ sendResult = FALSE
    /\ sent = [p \in Posts |-> 0]
    /\ failed = {}
    /\ calls = <<>>
    /\ track = NoTrack
    /\ skipped = {}

\* The process as started with the default configuration (src/main.py:15).
Init ==
    /\ InitMain
    /\ input = <<>>
    /\ extracted = Pending
    /\ poll_interval = DefaultPollInterval
    /\ slept = NoSleep

(***************************************************************************)
(* The locals of main() are cleared as soon as they are dead (tweets after *)
(* the tracking loop, rows after the pass, both when the cycle is          *)
(* aborted); calls, track, msg and sendResult describe the step that set   *)
(* them and are cleared by the step that follows.                          *)
(***************************************************************************)
ClearStep == calls' = <<>> /\ track' = NoTrack
ClearLocals == tweets' = <<>> /\ i' = 1 /\ rows' = <<>> /\ j' = 1

(***************************************************************************)
(* main(): startup (src/main.py:158-168).  The lookup is made outside the  *)
(* try, so an exception of the HTTP layer ends the process as well.        *)
(***************************************************************************)
Startup ==
    /\ pc = "start"
    /\ \E resp \in UserResp(LAUNCH_ACCOUNT) :
        LET launch_user == get_user_by_username(resp)
        IN IF resp.st = "exc"
           THEN pc' = "exited" /\ launch_id' = launch_id
           ELSE IF launch_user = <<>>
           THEN pc' = StartupFailure /\ launch_id' = launch_id
           ELSE pc' = "fetch" /\ launch_id' = launch_user[1].id
    /\ beneficiary_cache' = <<>>
    /\ ClearStep
    /\ UNCHANGED <<db, locals, now, restarts, sendResult, sent, failed, skipped>>
    /\ UNCHANGED aside

\* tweets = get_user_tweets(launch_id, max_results=5)   (src/main.py:172)
Fetch ==
    /\ pc = "fetch"
    /\ now < MaxCycles
    /\ now' = now + 1
    /\ \E resp \in TweetsResp :
        IF resp.st = "exc"
        THEN pc' = ExceptHandler /\ UNCHANGED <<tweets, i>>
        ELSE pc' = "track" /\ tweets' = get_user_tweets(resp) /\ i' = 1
    /\ ClearStep
    /\ UNCHANGED <<db, beneficiary_cache, launch_id, rows, j, action, msg, restarts,
                   sendResult, sent, failed, skipped>>
    /\ UNCHANGED aside

\* The effect of one iteration of the tracking loop whose outcome is b.
TrackEffect(b) ==
    /\ beneficiary_cache' = b.cache
    /\ db' = b.db
    /\ track' = [tid |-> b.tid, matched |-> b.matched, lookup |-> b.lookup,
                 raised |-> b.raised, skipped |-> b.skipped,
                 inserted |-> b.inserted, conflict |-> b.conflict]
    /\ skipped' = IF b.skipped THEN skipped \cup {b.tid} ELSE skipped
    /\ IF b.raised
       THEN pc' = ExceptHandler /\ ClearLocals
       ELSE pc' = "track" /\ i' = i + 1 /\ UNCHANGED <<tweets, rows, j>>

\* The iteration on the tweet t whose text extracts to e.
TrackTweet(t, e) ==
    \E resp \in UserResp(e[1]) :
        TrackEffect(TrackBody(beneficiary_cache, db, t, e, resp, now))

\* for t in reversed(tweets): ...   (src/main.py:174-192)
Track ==
    /\ pc = "track"
    /\ i <= Len(tweets)
    /\ TrackTweet(Tweet(Reverse(tweets)[i]), Extracted(Reverse(tweets)[i]))
    /\ UNCHANGED <<launch_id, action, msg, now, restarts, sendResult, sent, failed, calls>>
    /\ UNCHANGED aside

\* rows = db_get_unnotified()   (src/main.py:194)
Load ==
    /\ pc = "track"
    /\ i > Len(tweets)
    /\ \E o \in Orderings(db_get_unnotified(db)) : rows' = o
    /\ j' = 1
    /\ tweets' = <<>> /\ i' = 1
    /\ pc' = "probe"
    /\ ClearStep
    /\ UNCHANGED <<db, beneficiary_cache, launch_id, action, msg, now, restarts,
                   sendResult, sent, failed, skipped>>
    /\ UNCHANGED aside

\* The effect of the probe whose outcome is r.
ProbeEffect(r) ==
    /\ calls' = r.calls
    /\ action' = r.action
    /\ IF r.raised THEN pc' = ExceptHandler /\ ClearLocals
       ELSE IF r.action # None
            THEN pc' = "send" /\ UNCHANGED <<tweets, i, rows, j>>
       ELSE pc' = "probe" /\ j' = j + 1 /\ UNCHANGED <<tweets, i, rows>>

\* the three checks on rows[j]   (src/main.py:196-203)
Probe ==
    /\ pc = "probe"
    /\ j <= Len(rows)
    /\ \E rt \in RetweetersResp, rp \in SearchResp, qt \in QuoteResp :
        ProbeEffect(probe(rows[j], rt, rp, qt))
    /\ track' = NoTrack
    /\ UNCHANGED <<db, beneficiary_cache, launch_id, msg, now, restarts,
                   sendResult, sent, failed, skipped>>
    /\ UNCHANGED aside

\* msg = ...; send_telegram(msg)   (src/main.py:204-212)
Send ==
    /\ pc = "send"
    /\ msg' = Message(rows[j], beneficiary_cache, action)
    /\ \E answer \in TelegramResp :
        /\ sendResult' = send_telegram(answer)
        /\ sent' = IF answer = "200" THEN [sent EXCEPT ![rows[j][1]] = @ + 1] ELSE sent
        /\ failed' = IF send_telegram(answer) THEN failed ELSE failed \cup {rows[j][1]}
        /\ pc' = IF send_telegram(answer) THEN "mark" ELSE SendFailure
    /\ ClearStep
    /\ UNCHANGED <<db, beneficiary_cache, launch_id, tweets, i, rows, j, action, now,
                   restarts, skipped>>
    /\ UNCHANGED aside

\* db_mark_notified(tweet_id)   (src/main.py:213)
Mark ==
    /\ pc = "mark"
    /\ db' = db_mark_notified(db, rows[j][1])
    /\ j' = j + 1
    /\ pc' = "probe"
    /\ action' = None
    /\ msg' = NoMsg
    /\ sendResult' = FALSE
    /\ ClearStep
    /\ UNCHANGED <<beneficiary_cache, launch_id, tweets, i, rows, now, restarts,
                   sent, failed, skipped>>
    /\ UNCHANGED aside

\* time.sleep(POLL_INTERVAL), then the next iteration of while True   (src/main.py:216)
Sleep ==
    /\ pc = "probe"
    /\ j > Len(rows)
    /\ pc' = "fetch"
    /\ ClearLocals
    /\ ClearStep
    /\ UNCHANGED <<db, beneficiary_cache, launch_id, action, msg, now, restarts,
                   sendResult, sent, failed, skipped>>
    /\ UNCHANGED aside

\* except Exception: log, time.sleep(10), then the next iteration   (src/main.py:218-220)
Backoff ==
    /\ pc = "backoff"
    /\ pc' = "fetch"
    /\ action' = None
    /\ ClearStep
    /\ UNCHANGED <<db, beneficiary_cache, launch_id, tweets, i, rows, j, msg, now, restarts,
                   sendResult, sent, failed, skipped>>
    /\ UNCHANGED aside

\* The process is stopped from outside at any point and started again: only the
\* sqlite file (and the world's clock) survive.
Restart ==
    /\ restarts < MaxRestarts
    /\ restarts' = restarts + 1
    /\ pc' = "start"
    /\ beneficiary_cache' = <<>>
    /\ launch_id' = <<>>
    /\ ClearLocals
    /\ action' = None
    /\ msg' = NoMsg
    /\ sendResult' = FALSE
    /\ ClearStep
    /\ UNCHANGED <<db, now, sent, failed, skipped>>
    /\ UNCHANGED aside

Next ==
    \/ Startup
    \/ Fetch
    \/ Track
    \/ Load
    \/ Probe
    \/ Send
    \/ Mark
    \/ Sleep
    \/ Backoff
    \/ Restart

Spec == Init /\ [][Next]_vars

(***************************************************************************)
(* extract_beneficiary_and_contract on its own (src/main.py:128-132): the  *)
(* input is any text put together from a head (the phrase as written, the  *)
(* phrase in other case and whitespace, the phrase cut short), a handle, a *)
(* gap, a token and a tail.                                                *)
(***************************************************************************)
Heads == {Phrase, PhraseLoud, PhraseCut}
\* none, "al", 15 and 16 times "a", "a-"
Handles == {<<>>, HandleAl, Rep(97, HandleMax), Rep(97, HandleMax + 1), <<97, 45>>}
\* none, " ", "!\n"
Gaps == {<<>>, <<32>>, <<33, 10>>}
\* none, runs of "7" and "x" at and around the two lengths, and runs of "O", "l", "0"
Tokens ==
    {<<>>, Rep(55, TokenMin - 1), Rep(55, TokenMin), Rep(120, TokenMax),
     Rep(120, TokenMax + 1), Rep(79, TokenMin), Rep(108, TokenMin), Rep(48, TokenMin)}
\* none, "0", and a second announcement " royalties shared with @bo 888..."
Tails == {<<>>, <<48>>, <<32>> \o Phrase \o HandleBo \o <<32>> \o Rep(56, TokenMin)}

Inputs ==
    {hd \o hn \o gp \o tk \o tl :
        hd \in Heads, hn \in Handles, gp \in Gaps, tk \in Tokens, tl \in Tails}

InitExtract ==
    /\ InitMain
    /\ input \in Inputs
    /\ extracted = Pending
    /\ poll_interval = DefaultPollInterval
    /\ slept = NoSleep

\* beneficiary_username, contract = extract_beneficiary_and_contract(text)
Extract ==
    /\ extracted = Pending
    /\ extracted' = extract_beneficiary_and_contract(input)
    /\ UNCHANGED <<main, input, poll_interval, slept>>

NextExtract == Extract

SpecExtract == InitExtract /\ [][NextExtract]_vars

(***************************************************************************)
(* The two sleeps of the loop on their own (src/main.py:216, 220), for any *)
(* POLL_INTERVAL the environment can give (src/main.py:15).                *)
(***************************************************************************)
PollIntervals == 1..MaxPollInterval

InitSleep ==
    /\ InitMain
    /\ input = <<>>
    /\ extracted = Pending
    /\ poll_interval \in PollIntervals
    /\ slept = NoSleep

\* time.sleep(POLL_INTERVAL) at the end of a cycle
SleepAfterCycle ==
    /\ slept' = [after |-> "cycle", seconds |-> poll_interval]
    /\ UNCHANGED <<main, input, extracted, poll_interval>>

\* time.sleep(10) in the except clause
SleepAfterError ==
    /\ slept' = [after |-> "error", seconds |-> BackoffSeconds]
    /\ UNCHANGED <<main, input, extracted, poll_interval>>

NextSleep ==
    \/ SleepAfterCycle
    \/ SleepAfterError

SpecSleep == InitSleep /\ [][NextSleep]_vars

(***************************************************************************)
(* Properties.                                                             *)
(***************************************************************************)
Polling == {"fetch", "track", "probe", "send", "mark", "backoff"}
Ids(d) == {r.tweet_id : r \in d}
RowOf(d, p) == CHOOSE r \in d : r.tweet_id = p
Last(s) == s[Len(s)]
CheckOrder == <<"retweet", "reply", "quote">>

\* C1: db_mark_notified is reached only after a send_telegram that returned True, and a
\* row is notified only if Telegram accepted a message for it.
C1_MarkOnlyAfterSuccess ==
    /\ pc = "mark" => sendResult = TRUE
    /\ \A r \in db : r.notified = 1 => sent[r.tweet_id] >= 1

\* C2: over all cycles, aborted cycles and restarts, Telegram accepts at most one
\* message per tracked post.
C2_AtMostOnce == \A p \in Posts : sent[p] <= 1

\* C3: a post whose dispatch failed and that has had no accepted message since is still
\* returned by db_get_unnotified, so the next cycle probes and dispatches it again.
C3_FailedDispatchRetried ==
    \A p \in failed : sent[p] = 0 => \E row \in db_get_unnotified(db) : row[1] = p

\* C4: an insert of a tweet_id that is already stored leaves the table as it was (the
\* row keeps its handle, id, contract, timestamp and notified flag), and no insert ever
\* leaves two rows with one tweet_id.
C4_InsertIdempotent ==
    [][/\ track'.conflict => db' = db
       /\ \A a, b \in db' : a.tweet_id = b.tweet_id => a = b]_vars

\* a row that was notified in an earlier cycle has just been inserted again
C4_Witness ==
    /\ track.conflict
    /\ \E r \in db : r.tweet_id = track.tid /\ r.notified = 1 /\ r.created_at < now

\* C5: the probe calls retweet, reply, quote in that order and stops at the first
\* positive check; the action is the name of the positive check, None when there is none.
C5_ProbeOrder ==
    calls # <<>> =>
        /\ Len(calls) <= 3
        /\ \A k \in 1..Len(calls) : calls[k][1] = CheckOrder[k]
        /\ \A k \in 1..(Len(calls) - 1) : calls[k][2] \in {"neg", "err"}
        /\ Last(calls)[2] \in {"neg", "err"} => Len(calls) = 3
        /\ action = IF Last(calls)[2] = "pos" THEN Last(calls)[1] ELSE None

\* retweet and reply were negative, quote positive
C5_Witness == Len(calls) = 3 /\ action = "quote"

\* C6: a failed capability call of the probe (non-200 or raised) is a negative result of
\* its own check only: the later checks are still made and the probe does not raise.
C6_FailureIsNegative ==
    \A k \in 1..Len(calls) :
        calls[k][2] \in {"err", "exc"} => pc # "backoff" /\ (k < 3 => Len(calls) > k)

\* C7: when the tracking loop handles a matching tweet and the lookup of its handle
\* fails, the table is unchanged; when the handle resolves, the tweet is in the table
\* after the step, with the id of the resolved user.
C7_RetryUntilResolved ==
    [][(track'.matched /\ ~track'.raised) =>
        IF track'.skipped
        THEN db' = db
        ELSE \E r \in db' :
                /\ r.tweet_id = track'.tid
                /\ r.beneficiary_id = UserId(Extracted(track'.tid)[1])]_vars

\* a tweet skipped earlier because its handle did not resolve is inserted after a lookup
C7_Witness ==
    /\ track.inserted /\ ~track.conflict
    /\ track.tid \in skipped
    /\ track.lookup # <<>> /\ track.lookup[2] = "ok"
    /\ \E r \in db : r.tweet_id = track.tid /\ r.created_at >= 2

\* C8: the lookup is made only for a handle absent from the cache, and is made for every
\* matching tweet whose handle is absent; a cached identity is kept unchanged until the
\* process ends; a successful lookup is cached; a failed one leaves the cache as it was.
C8_CachePolicy ==
    [][/\ track'.lookup # <<>> => track'.lookup[1] \notin DOMAIN beneficiary_cache
       /\ (track'.matched /\ Extracted(track'.tid)[1] \notin DOMAIN beneficiary_cache)
            => track'.lookup # <<>>
       /\ restarts' = restarts =>
            \A h \in DOMAIN beneficiary_cache :
                h \in DOMAIN beneficiary_cache' /\ beneficiary_cache'[h] = beneficiary_cache[h]
       /\ (track'.lookup # <<>> /\ track'.lookup[2] = "ok")
            => track'.lookup[1] \in DOMAIN beneficiary_cache'
       /\ (track'.lookup # <<>> /\ track'.lookup[2] # "ok")
            => beneficiary_cache' = beneficiary_cache]_vars

\* after a failed lookup earlier, a matching tweet is resolved from the cache
C8_Witness ==
    /\ track.matched /\ track.inserted /\ track.lookup = <<>>
    /\ skipped # {}

\* C9: inside the loop every step stays inside the loop: a step that raises goes to the
\* handler, and the handler goes on to the next cycle.
C9_LoopNeverEnds ==
    [][restarts' = restarts =>
        /\ pc \in Polling => pc' \in Polling
        /\ (track'.raised \/ (calls' # <<>> /\ Last(calls')[2] = "exc")) => pc' = "backoff"
        /\ pc = "backoff" => pc' = "fetch"]_vars

\* a probe raised and the handler caught it, with a row already tracked
C9_Witness == pc = "backoff" /\ calls # <<>> /\ db # {}

\* C10: a startup that does not resolve the launch account ends the process, and from
\* there nothing happens but a new start: no fetch, no insert, no probe, no dispatch.
C10_StartupFatal ==
    [][/\ (pc = "start" /\ restarts' = restarts /\ launch_id' = <<>>) => pc' = "exited"
       /\ pc = "exited" =>
            /\ pc' = "start" /\ restarts' = restarts + 1
            /\ db' = db /\ sent' = sent /\ failed' = failed /\ now' = now
            /\ calls' = <<>> /\ track' = NoTrack]_vars

\* the process has exited at startup, after an earlier run had tracked a post
C10_Witness == pc = "exited" /\ launch_id = <<>> /\ db # {}

\* C11: in a pass, send_telegram is called exactly in the step after a probe that found
\* an action, with a message that embeds the tweet, handle and contract of the probed
\* row and the action found; a row whose probe found none gets no call and stays
\* unnotified, and the pass changes no row but the one it has just dispatched.
C11_DispatchIffAction ==
    [][restarts' = restarts =>
        /\ (msg = NoMsg /\ msg' # NoMsg) <=> pc = "send"
        /\ pc' = "send" <=> (pc = "probe" /\ action' # None)
        /\ pc = "send" =>
            /\ Last(calls) = <<action, "pos">>
            /\ msg'.tweet = rows[j][1]
            /\ msg'.user = rows[j][2] /\ msg'.user = RowOf(db, rows[j][1]).beneficiary_username
            /\ msg'.contract = rows[j][4] /\ msg'.contract = RowOf(db, rows[j][1]).contract
            /\ msg'.action = action
        /\ (pc = "probe" /\ calls' # <<>> /\ action' = None /\ pc' = "probe") =>
            /\ msg' = NoMsg /\ sent' = sent /\ failed' = failed
            /\ db' = db /\ RowOf(db', rows[j][1]).notified = 0
            /\ j' = j + 1
        /\ pc \in {"probe", "send", "mark"} =>
            \A r \in db : (pc = "mark" /\ r.tweet_id = rows[j][1]) \/ r \in db']_vars

\* the pass is over two rows: the first was dispatched and is notified, the second was
\* probed without an action, got no call and is unnotified
C11_Witness ==
    /\ pc = "probe" /\ Len(rows) = 2 /\ j = 3
    /\ Len(calls) = 3 /\ action = None
    /\ sent[rows[1][1]] = 1 /\ RowOf(db, rows[1][1]).notified = 1
    /\ sent[rows[2][1]] = 0 /\ rows[2][1] \notin failed
    /\ RowOf(db, rows[2][1]).notified = 0

NoMatch == <<<<>>, <<>>>>

\* The text has the phrase (in any case, with any whitespace between its words), then
\* 1 to 15 handle characters and, from there on, 32 characters of the base-58 alphabet.
WellFormed(t) ==
    \E at \in 1..Len(t) :
        /\ PrefixEnd(t, at) # 0
        /\ \E h \in 1..HandleMax :
            /\ PrefixEnd(t, at) + h - 1 <= Len(t)
            /\ \A k \in PrefixEnd(t, at)..(PrefixEnd(t, at) + h - 1) : IsWord(t[k])
            /\ \E tp \in (PrefixEnd(t, at) + h)..(Len(t) - TokenMin + 1) :
                \A k \in tp..(tp + TokenMin - 1) : InBase58(t[k])

\* C12: extract returns a pair exactly for the texts that hold the phrase, a handle of 1
\* to 15 characters of [A-Za-z0-9_] and later a token of 32 to 44 base-58 characters,
\* and the pair it returns is such a handle and such a token.
C12_ExtractGrammar ==
    extracted # Pending =>
        /\ extracted # NoMatch <=> WellFormed(input)
        /\ extracted # NoMatch =>
            /\ Len(extracted[1]) \in 1..HandleMax
            /\ \A k \in 1..Len(extracted[1]) : IsWord(extracted[1][k])
            /\ Len(extracted[2]) \in TokenMin..TokenMax
            /\ \A k \in 1..Len(extracted[2]) : InBase58(extracted[2][k])

\* C13: on every table the program reaches, db_get_unnotified returns the rows with
\* notified = 0 and no other; db_mark_notified of any tweet_id, stored or not, keeps the
\* set of tweet_ids, changes nothing but the notified flag of that tweet_id's row, which
\* becomes 1, and marking a second time changes nothing.
C13_ListAndMark ==
    /\ \A r \in db :
        r.notified = 0 <=>
            <<r.tweet_id, r.beneficiary_username, r.beneficiary_id, r.contract>>
                \in db_get_unnotified(db)
    /\ \A row \in db_get_unnotified(db) :
        \E r \in db :
            /\ r.notified = 0
            /\ row = <<r.tweet_id, r.beneficiary_username, r.beneficiary_id, r.contract>>
    /\ \A p \in 0..NumPosts :
        /\ Ids(db_mark_notified(db, p)) = Ids(db)
        /\ Cardinality(db_mark_notified(db, p)) = Cardinality(db)
        /\ \A r \in db :
            IF r.tweet_id = p
            THEN [r EXCEPT !.notified = 1] \in db_mark_notified(db, p)
            ELSE r \in db_mark_notified(db, p)
        /\ p \notin Ids(db) => db_mark_notified(db, p) = db
        /\ db_mark_notified(db_mark_notified(db, p), p) = db_mark_notified(db, p)

\* the first row of the pass has been marked while another row is unnotified
C13_Witness ==
    /\ pc = "probe" /\ j = 2 /\ Len(rows) = 2
    /\ RowOf(db, rows[1][1]).notified = 1
    /\ RowOf(db, rows[2][1]).notified = 0
    /\ {rows[2][1]} = {row[1] : row \in db_get_unnotified(db)}

\* C14: every step, a raising step and a restart included, keeps every row of the table
\* with its handle, id, contract and timestamp, and with a notified flag that is not
\* lower than before; a raising step and a restart leave the table exactly as it was.
C14_StoreOnlyGrows ==
    [][/\ \A r \in db :
            \E r2 \in db' :
                /\ r2.tweet_id = r.tweet_id
                /\ r2.beneficiary_username = r.beneficiary_username
                /\ r2.beneficiary_id = r.beneficiary_id
                /\ r2.contract = r.contract
                /\ r2.created_at = r.created_at
                /\ r2.notified >= r.notified
       /\ restarts' # restarts => db' = db
       /\ (pc # "backoff" /\ pc' = "backoff") => db' = db]_vars

\* after a restart the table holds a notified row of the first cycle and a row inserted
\* in the second
C14_Witness ==
    /\ restarts = 1 /\ pc \in Polling
    /\ \E r \in db : r.notified = 1 /\ r.created_at = 1
    /\ \E r \in db : r.notified = 0 /\ r.created_at = 2

\* C15: a send_telegram that returns False does not abort the pass: control goes on to
\* the statement after it with rows and the position in them unchanged, the pass then
\* moves to the following row, and every row the pass is at is probed and, when the
\* probe finds an action, dispatched.
C15_DispatchFailureIsolated ==
    [][restarts' = restarts =>
        /\ (pc = "send" /\ ~sendResult') => (pc' = "mark" /\ rows' = rows /\ j' = j)
        /\ pc = "mark" => (pc' = "probe" /\ rows' = rows /\ j' = j + 1)
        /\ (pc = "probe" /\ j <= Len(rows)) =>
            /\ calls' # <<>>
            /\ (action' # None => pc' = "send" /\ rows' = rows /\ j' = j)]_vars

\* in one pass the dispatch for the first row failed and the dispatch for the second
\* row was accepted
C15_Witness ==
    /\ pc = "mark" /\ j = 2 /\ sendResult
    /\ restarts = 0
    /\ rows[1][1] \in failed /\ sent[rows[1][1]] = 0
    /\ sent[rows[2][1]] = 1

\* C16: no call of the Twitter API made in a cycle aborts the cycle: the identity lookup
\* of the tracking loop does not raise, no check of the probe raises, and the handler
\* of the cycle is never entered.
C16_ApiFailureCompletesCycle ==
    /\ ~track.raised
    /\ calls # <<>> => Last(calls)[2] # "exc"
    /\ pc # "backoff"

\* C17: an iteration of the tracking loop on a tweet whose text does not match makes no
\* lookup, raises nothing, leaves the cache and the table as they were and moves on to
\* the next tweet of the window.
C17_ExtractionMissNoEffect ==
    [][(track' # NoTrack /\ ~track'.matched) =>
        /\ Extracted(track'.tid) = NoMatch
        /\ track'.lookup = <<>> /\ ~track'.raised
        /\ ~track'.skipped /\ ~track'.inserted
        /\ beneficiary_cache' = beneficiary_cache /\ db' = db /\ skipped' = skipped
        /\ pc' = "track" /\ tweets' = tweets /\ i' = i + 1]_vars

\* the loop has tracked a matching tweet of the window and has just passed one that
\* does not match
C17_Witness ==
    /\ pc = "track" /\ Len(tweets) >= 2 /\ i = Len(tweets) + 1
    /\ track # NoTrack /\ ~track.matched
    /\ \E r \in db : r.created_at = now /\ r.tweet_id = tweets[Len(tweets)]

\* C18: whatever POLL_INTERVAL is configured, the sleep after a cycle error is the
\* fixed back-off and is strictly shorter than the sleep between cycles.
C18_BackoffShorter ==
    slept.after = "error" =>
        /\ slept.seconds = BackoffSeconds
        /\ slept.seconds < poll_interval

\* C19: whenever a message has been composed, the handle of its row is in
\* beneficiary_cache and the message carries the followers and bio cached for it, not
\* the defaults of beneficiary_cache.get.
C19_IdentityCachedAtDispatch ==
    msg # NoMsg =>
        /\ msg.user \in DOMAIN beneficiary_cache
        /\ msg.followers # Unknown
        /\ msg.followers = beneficiary_cache[msg.user][2]
        /\ msg.bio = beneficiary_cache[msg.user][3]

=============================================================================
